---------------------------- MODULE Spec2Model ----------------------------
(***************************************************************************)
(* State-machine model of the SatelliteMap component                       *)
(* (static/js/src/components/SatelliteMap.js) and of the helpers it        *)
(* imports (static/js/src/utils/helpers.js).                               *)
(*                                                                         *)
(* Numbers.  JavaScript Numbers are modelled as fixed-point values: the    *)
(* integer v stands for v / Unit.  Sums and differences are exact,         *)
(* products and quotients round to the nearest representable value, as     *)
(* IEEE-754 arithmetic does (at a far finer resolution).                   *)
(*                                                                         *)
(* Scheduling.  The page loads React 17 and mounts the component with      *)
(* ReactDOM.render: every state update made inside a DOM event handler is  *)
(* flushed before the next event is dispatched, so each handler reads the  *)
(* state its predecessor left.  A handler is one atomic action.            *)
(***************************************************************************)
EXTENDS Integers, Sequences, FiniteSets, TLC

(***************************************************************************)
(* Bounds of the model.                                                    *)
(***************************************************************************)
\* resolution of the fixed-point numbers: 1 / Unit
Unit == 100
\* pointer positions lie on a (PointerSteps + 1)-point diagonal of the viewport
PointerSteps == 2
\* a gesture is one pointer event, or one uninterrupted run of wheel notches
\* in one direction
MaxGestures == 5
\* fetches started by the mount effect and the refresh timer
MaxFetches == 3
\* length of the orbital-link list of a generated snapshot
MaxLinks == 2
\* gestures on the viewport while refreshes are running
RefreshGestures == 3
\* fetches started while refreshes interleave with gestures or clicks
RefreshFetches == 2
\* clicks on node icons
MaxClicks == 1
\* the length of a run of wheel notches is counted up to this value
MaxWheelRun == 21

(***************************************************************************)
(* Program constants.                                                      *)
(***************************************************************************)
mapWidth == 800
mapHeight == 400
originalImageWidth == 5400
originalImageHeight == 2700

(***************************************************************************)
(* Number arithmetic.                                                      *)
(***************************************************************************)
\* n / d rounded to the nearest integer (d > 0), halves upwards
RoundDiv(n, d) == (2 * n + d) \div (2 * d)

\* the Number with integer value n
Fx(n) == n * Unit

\* a * b on Numbers
FxMul(a, b) == RoundDiv(a * b, Unit)

\* a / b on Numbers (b > 0)
FxDiv(a, b) == RoundDiv(a * Unit, b)

\* the Number literal num / den (0.9 is Lit(9, 10))
Lit(num, den) == RoundDiv(num * Unit, den)

MathMax(a, b) == IF a >= b THEN a ELSE b

MathMin(a, b) == IF a <= b THEN a ELSE b

\* mutant: Math.min and Math.max exchanged
clampMinMaxSwapped(value, min, max) == MathMax(MathMin(value, min), max)

clamp(value, min, max) == MathMin(MathMax(value, min), max)

MAX_SCALE ==
  MathMax(FxDiv(Fx(originalImageWidth), Fx(mapWidth)),
          FxDiv(Fx(originalImageHeight), Fx(mapHeight)))

MIN_SCALE == Fx(1)

(***************************************************************************)
(* Environment: the viewport element and the pointer.                      *)
(***************************************************************************)
\* getBoundingClientRect() of the viewport div (w-full max-w-4xl h-96), CSS px
Rect == [left |-> 32, top |-> 96, width |-> 896, height |-> 384]

\* pointer positions, in px relative to the viewport's top-left corner
Pointers ==
  { <<(i * Rect.width) \div PointerSteps, (i * Rect.height) \div PointerSteps>> :
      i \in 0..PointerSteps }

\* MouseEvent.button values: primary, auxiliary, secondary
Buttons == {0, 1, 2}

\* WheelEvent.deltaY values: wheel up, horizontal-only scroll, wheel down
DeltaYs == {-100, 0, 100}

clientX(p) == Fx(Rect.left + p[1])

clientY(p) == Fx(Rect.top + p[2])

(***************************************************************************)
(* Strings.  A name is the sequence of its characters.                     *)
(***************************************************************************)
Digits == {"0", "1", "2", "3", "4", "5", "6", "7", "8", "9"}

DigitValue ==
  ("0" :> 0) @@ ("1" :> 1) @@ ("2" :> 2) @@ ("3" :> 3) @@ ("4" :> 4) @@
  ("5" :> 5) @@ ("6" :> 6) @@ ("7" :> 7) @@ ("8" :> 8) @@ ("9" :> 9)

\* String.prototype.startsWith
startsWith(str, prefix) ==
  /\ Len(str) >= Len(prefix)
  /\ SubSeq(str, 1, Len(prefix)) = prefix

\* str.split(sep)[0]: the part of str before the first sep
RECURSIVE splitFirst(_, _)
splitFirst(str, sep) ==
  IF str = <<>> \/ Head(str) = sep
    THEN <<>>
    ELSE <<Head(str)>> \o splitFirst(Tail(str), sep)

\* str.substring(1)
substring1(str) == IF str = <<>> THEN <<>> ELSE Tail(str)

\* the value of the leading run of digits of str, continuing from acc
RECURSIVE leadingDigits(_, _)
leadingDigits(str, acc) ==
  IF str = <<>> \/ Head(str) \notin Digits
    THEN acc
    ELSE leadingDigits(Tail(str), 10 * acc + DigitValue[Head(str)])

NaN == [nan |-> TRUE, value |-> 0]

\* parseInt(str) for names without whitespace or sign: NaN unless a digit leads
parseInt(str) ==
  IF str = <<>> \/ Head(str) \notin Digits
    THEN NaN
    ELSE [nan |-> FALSE, value |-> leadingDigits(str, 0)]

\* a === b on Numbers: NaN equals nothing, itself included
StrictEquals(a, b) == ~a.nan /\ ~b.nan /\ a.value = b.value

\* mutant: substring(1, 2) instead of substring(1): one digit is read
areInSamePlaneOneDigit(sat1Name, sat2Name) ==
  LET ring1 == parseInt(SubSeq(substring1(splitFirst(sat1Name, "_")), 1, 1))
      ring2 == parseInt(SubSeq(substring1(splitFirst(sat2Name, "_")), 1, 1))
  IN  StrictEquals(ring1, ring2)

areInSamePlane(sat1Name, sat2Name) ==
  LET ring1 == parseInt(substring1(splitFirst(sat1Name, "_")))
      ring2 == parseInt(substring1(splitFirst(sat2Name, "_")))
  IN  StrictEquals(ring1, ring2)

(***************************************************************************)
(* The snapshots the /positions endpoint serves.                           *)
(***************************************************************************)
R1_A == <<"R", "1", "_", "A">>
R1_B == <<"R", "1", "_", "B">>
R2_B == <<"R", "2", "_", "B">>
R12_C == <<"R", "1", "2", "_", "C">>
G_X == <<"G", "_", "X">>
V_Y == <<"V", "_", "Y">>
\* a name that is in no node collection of any snapshot
R9_ZZ == <<"R", "9", "_", "Z", "Z">>

Names == {R1_A, R1_B, R2_B, R12_C, G_X, V_Y, R9_ZZ}

Node(name, lat, lon) == [name |-> name, lat |-> Fx(lat), lon |-> Fx(lon)]

AllSatellites ==
  <<Node(R1_A, 0, -170), Node(R1_B, 10, 170), Node(R2_B, 45, 0),
    Node(R12_C, -60, 90)>>

AllGroundStations == <<Node(G_X, 40, 10)>>

AllVessels == <<Node(V_Y, -30, -20)>>

Link(a, b, up) == [node1_name |-> a, node2_name |-> b, up |-> up]

Uplinks(ground, sats) ==
  [ground_node |-> ground,
   uplinks |-> [i \in 1..Len(sats) |-> [sat_node |-> sats[i]]]]

\* a key of the payload: absent (<<>>) or present with a value (<<value>>)
Absent == <<>>

Present(value) == <<value>>

Payload(sats, stations, ships, links, groups) ==
  [satellites |-> sats, ground_stations |-> stations, vessels |-> ships,
   satellite_links |-> links, ground_uplinks |-> groups]

\* the endpoint pairs of the generated orbital links
LinkPairs ==
  {<<R1_A, R1_B>>, <<R2_B, R1_A>>, <<R1_A, R12_C>>, <<R1_A, G_X>>,
   <<R1_B, R9_ZZ>>}

LinkUniverse == {Link(p[1], p[2], up) : p \in LinkPairs, up \in BOOLEAN}

LinkLists == UNION {[1..n -> LinkUniverse] : n \in 0..MaxLinks}

GroupLists ==
  { <<>>,
    <<Uplinks(G_X, <<R1_A, R2_B>>), Uplinks(V_Y, <<R1_B, R1_A>>)>>,
    <<Uplinks(G_X, <<R1_A>>), Uplinks(V_Y, <<G_X, V_Y>>)>>,
    <<Uplinks(G_X, <<R9_ZZ, R1_B>>), Uplinks(G_X, <<R1_B>>)>>,
    <<Uplinks(V_Y, <<>>)>> }

\* payloads with every node present and generated link lists
GraphSnapshots ==
  { Payload(Present(AllSatellites), Present(AllGroundStations),
            Present(AllVessels), Present(links), Present(groups)) :
      links \in LinkLists, groups \in GroupLists }

\* payloads of successive refreshes: full, changed, partial and empty ones
Snapshots ==
  { Payload(Present(AllSatellites), Present(AllGroundStations),
            Present(AllVessels),
            Present(<<Link(R1_A, R1_B, TRUE), Link(R2_B, R1_A, TRUE),
                      Link(R1_B, R2_B, FALSE)>>),
            Present(<<Uplinks(G_X, <<R1_A, R2_B>>),
                      Uplinks(V_Y, <<R1_B>>)>>)),
    Payload(Present(SubSeq(AllSatellites, 2, 3)), Present(AllGroundStations),
            Present(<<>>),
            Present(<<Link(R1_A, R1_B, TRUE), Link(R1_B, R2_B, TRUE)>>),
            Present(<<Uplinks(G_X, <<R2_B>>), Uplinks(V_Y, <<R1_B>>)>>)),
    Payload(Present(SubSeq(AllSatellites, 1, 2)), Absent,
            Present(AllVessels),
            Present(<<Link(R1_B, R1_A, TRUE)>>), Absent),
    Payload(Absent, Absent, Absent, Absent, Absent) }

VARIABLES
  transform,      \* useState({ x: 0, y: 0, scale: 1 })
  isDragging,     \* useState(false)
  dragStart,      \* useState({ x: 0, y: 0 })
  bodyOverflow,   \* document.body.style.overflow
  pointer,        \* environment: last position of the pointer
  pointerInside,  \* environment: the pointer is over the viewport div
  satellites,           \* useState([])
  groundStations,       \* useState([])
  vessels,              \* useState([])
  satelliteLinks,       \* useState([])
  groundUplinks,        \* useState([])
  showInPlaneLinks,     \* useState(false)
  showCrossPlaneLinks,  \* useState(false)
  showGroundLinks,      \* useState(false)
  hoveredNode,          \* useState(null): <<>> is null, <<name>> a name
  inFlight,       \* the fetches started and not yet settled
  started,        \* the number of fetches started so far
  pending,        \* the payload the running fetchPositions is storing
  settersDone,    \* how many of its five setters have run (0: none running)
  overNode,       \* environment: the node icon the pointer is over
  opened,         \* environment: the window.open calls made so far
  mounted,        \* React: the component is mounted
  interval,       \* environment: the timer of setInterval, "set" or "cleared"
  gestures,       \* bookkeeping: gestures used so far
  wheelRun,       \* bookkeeping: wheel notches of the run in progress
  dragOrigin,     \* bookkeeping: pan and pointer at the primary mousedown
                  \* of the drag in progress, <<>> after a wheel event
  lastEvent,      \* bookkeeping: the event handled last, [type, arg]
  prevEvent,      \* bookkeeping: the event handled before it
  lastFetch,      \* bookkeeping: how the fetch that settled last ended
  newestStored    \* bookkeeping: the stored response of the newest fetch

viewVars == <<transform, isDragging, dragStart, bodyOverflow>>

pointerVars == <<pointer, pointerInside>>

mountVars == <<mounted, interval>>

pageVars == <<opened, mountVars>>

collections ==
  <<satellites, groundStations, vessels, satelliteLinks, groundUplinks>>

toggles == <<showInPlaneLinks, showCrossPlaneLinks, showGroundLinks>>

fetchVars == <<inFlight, started, pending, settersDone>>

dataVars == <<collections, toggles, hoveredNode, fetchVars, overNode, pageVars>>

fetchBook == <<lastFetch, newestStored>>

bookVars == <<gestures, wheelRun, dragOrigin, lastEvent, prevEvent, fetchBook>>

vars == <<viewVars, pointerVars, dataVars, bookVars>>

Init ==
  /\ transform = [x |-> 0, y |-> 0, scale |-> Fx(1)]
  /\ isDragging = FALSE
  /\ dragStart = [x |-> 0, y |-> 0]
  /\ bodyOverflow = ""
  /\ pointer = <<0, 0>>
  /\ pointerInside = FALSE
  /\ satellites = <<>>
  /\ groundStations = <<>>
  /\ vessels = <<>>
  /\ satelliteLinks = <<>>
  /\ groundUplinks = <<>>
  /\ showInPlaneLinks = FALSE
  /\ showCrossPlaneLinks = FALSE
  /\ showGroundLinks = FALSE
  /\ hoveredNode = <<>>
  /\ inFlight = {1}
  /\ started = 1
  /\ pending = <<>>
  /\ settersDone = 0
  /\ overNode = <<>>
  /\ opened = <<>>
  /\ mounted = TRUE
  /\ interval = "set"
  /\ gestures = 0
  /\ wheelRun = 0
  /\ dragOrigin = <<>>
  /\ lastEvent = [type |-> "none", arg |-> 0]
  /\ prevEvent = [type |-> "none", arg |-> 0]
  /\ lastFetch = "none"
  /\ newestStored = <<>>

\* the stored response of the newest fetch once response is stored as well
\* (ids count the fetches in the order they were started)
Newest(stored, response) ==
  IF stored # <<>> /\ stored[1].id > response.id THEN stored ELSE <<response>>

\* the direction of a wheel notch
WheelDir(deltaY) == IF deltaY > 0 THEN "out" ELSE "in"

\* the event (type, arg) is handled now
Record(type, arg) ==
  /\ lastEvent' = [type |-> type, arg |-> arg]
  /\ prevEvent' = lastEvent
  /\ wheelRun' =
       IF type # "wheel"
         THEN 0
         ELSE IF lastEvent.type = "wheel" /\ WheelDir(lastEvent.arg) = WheelDir(arg)
                THEN MathMin(wheelRun + 1, MaxWheelRun)
                ELSE 1
  /\ dragOrigin' =
       IF type = "mousedown" /\ arg = 0
         THEN <<[x |-> transform.x, y |-> transform.y, pointer |-> pointer]>>
         ELSE IF type \in {"wheel", "mouseup", "mouseleave"}
                THEN <<>>
                ELSE dragOrigin
  /\ UNCHANGED fetchBook

\* one more gesture that is not a wheel notch
Gesture(type, arg) ==
  /\ gestures < MaxGestures
  /\ gestures' = gestures + 1
  /\ Record(type, arg)

\* a wheel notch: free while it continues the run in progress
Notch(deltaY) ==
  /\ Record("wheel", deltaY)
  /\ IF lastEvent.type = "wheel" /\ WheelDir(lastEvent.arg) = WheelDir(deltaY)
       THEN gestures' = gestures
       ELSE gestures < MaxGestures /\ gestures' = gestures + 1

(***************************************************************************)
(* Event handlers of the viewport div.                                     *)
(***************************************************************************)
\* mutant: the anchor is the pointer alone, the pan is not subtracted
handleMouseDownAnchorsAtPointer(button) ==
  /\ settersDone = 0
  /\ UNCHANGED dataVars
  /\ pointerInside
  /\ Gesture("mousedown", button)
  /\ IF button = 0
       THEN /\ isDragging' = TRUE
            /\ dragStart' = [x |-> clientX(pointer), y |-> clientY(pointer)]
       ELSE UNCHANGED <<isDragging, dragStart>>
  /\ UNCHANGED <<transform, bodyOverflow, pointer, pointerInside>>

\* mutant: the test of e.button is missing
handleMouseDownAnyButton(button) ==
  /\ settersDone = 0
  /\ UNCHANGED dataVars
  /\ pointerInside
  /\ Gesture("mousedown", button)
  /\ isDragging' = TRUE
  /\ dragStart' = [x |-> clientX(pointer) - transform.x,
                   y |-> clientY(pointer) - transform.y]
  /\ UNCHANGED <<transform, bodyOverflow, pointer, pointerInside>>

handleMouseDown(button) ==
  /\ settersDone = 0
  /\ UNCHANGED dataVars
  /\ pointerInside
  /\ Gesture("mousedown", button)
  /\ IF button = 0
       THEN /\ isDragging' = TRUE
            /\ dragStart' = [x |-> clientX(pointer) - transform.x,
                             y |-> clientY(pointer) - transform.y]
       ELSE UNCHANGED <<isDragging, dragStart>>
  /\ UNCHANGED <<transform, bodyOverflow, pointer, pointerInside>>

\* mutant: the vertical pan is clamped with the horizontal bound
DragTransformWidthForY(p) ==
  LET newX == clientX(p) - dragStart.x
      newY == clientY(p) - dragStart.y
      maxX == mapWidth * (transform.scale - Fx(1))
  IN  [transform EXCEPT !.x = clamp(newX, -maxX, 0),
                        !.y = clamp(newY, -maxX, 0)]

\* the transform handleMouseMove stores for a pointer at p
DragTransform(p) ==
  LET newX == clientX(p) - dragStart.x
      newY == clientY(p) - dragStart.y
      maxX == mapWidth * (transform.scale - Fx(1))
      maxY == mapHeight * (transform.scale - Fx(1))
  IN  [transform EXCEPT !.x = clamp(newX, -maxX, 0),
                        !.y = clamp(newY, -maxY, 0)]

handleMouseMove(p) ==
  /\ settersDone = 0
  /\ UNCHANGED dataVars
  /\ pointerInside
  /\ Gesture("mousemove", 0)
  /\ pointer' = p
  /\ IF isDragging
       THEN transform' = DragTransform(p)
       ELSE UNCHANGED transform
  /\ UNCHANGED <<isDragging, dragStart, bodyOverflow, pointerInside>>

handleMouseUp ==
  /\ settersDone = 0
  /\ UNCHANGED dataVars
  /\ pointerInside
  /\ Gesture("mouseup", 0)
  /\ isDragging' = FALSE
  /\ UNCHANGED <<transform, dragStart, bodyOverflow, pointer, pointerInside>>

handleMapEnter(p) ==
  /\ settersDone = 0
  /\ UNCHANGED dataVars
  /\ ~pointerInside
  /\ Gesture("mouseenter", 0)
  /\ pointerInside' = TRUE
  /\ pointer' = p
  /\ bodyOverflow' = "hidden"
  /\ UNCHANGED <<transform, isDragging, dragStart>>

\* mutant: setIsDragging(false) is missing
handleMapLeaveKeepsDrag ==
  /\ settersDone = 0
  /\ UNCHANGED dataVars
  /\ pointerInside
  /\ Gesture("mouseleave", 0)
  /\ pointerInside' = FALSE
  /\ bodyOverflow' = "auto"
  /\ UNCHANGED <<transform, isDragging, dragStart, pointer>>

\* mutant: the overflow style is not restored
handleMapLeaveKeepsLock ==
  /\ settersDone = 0
  /\ UNCHANGED dataVars
  /\ pointerInside
  /\ Gesture("mouseleave", 0)
  /\ pointerInside' = FALSE
  /\ isDragging' = FALSE
  /\ UNCHANGED <<transform, dragStart, bodyOverflow, pointer>>

handleMapLeave ==
  /\ settersDone = 0
  /\ UNCHANGED dataVars
  /\ pointerInside
  /\ Gesture("mouseleave", 0)
  /\ pointerInside' = FALSE
  /\ bodyOverflow' = "auto"
  /\ isDragging' = FALSE
  /\ UNCHANGED <<transform, dragStart, pointer>>

\* mutant: a wheel-down notch zooms out by 0.95
scaleFactorOfFineOut(deltaY) == IF deltaY > 0 THEN Lit(19, 20) ELSE Lit(11, 10)

scaleFactorOf(deltaY) == IF deltaY > 0 THEN Lit(9, 10) ELSE Lit(11, 10)

\* mutant: handleWheel never returns early
WheelIgnoredNever(deltaY) == FALSE

\* handleWheel returns early: already at a limit and moving further
WheelIgnored(deltaY) ==
  \/ transform.scale = MAX_SCALE /\ scaleFactorOf(deltaY) > Fx(1)
  \/ transform.scale = MIN_SCALE /\ scaleFactorOf(deltaY) < Fx(1)

\* mutant: the zoom point is taken from the cursor alone, the pan is ignored
ZoomTransformIgnoresPan(p, deltaY) ==
  LET scaleFactor == scaleFactorOf(deltaY)
      newScale == clamp(FxMul(transform.scale, scaleFactor), MIN_SCALE, MAX_SCALE)
      mouseX == clientX(p) - Fx(Rect.left)
      mouseY == clientY(p) - Fx(Rect.top)
      zoomPointX == FxDiv(mouseX, transform.scale)
      zoomPointY == FxDiv(mouseY, transform.scale)
      newX == mouseX - FxMul(zoomPointX, newScale)
      newY == mouseY - FxMul(zoomPointY, newScale)
      maxX == mapWidth * (newScale - Fx(1))
      maxY == mapHeight * (newScale - Fx(1))
  IN  [scale |-> newScale,
       x |-> clamp(newX, -maxX, 0),
       y |-> clamp(newY, -maxY, 0)]

\* the transform handleWheel stores for a wheel event at p
ZoomTransform(p, deltaY) ==
  LET scaleFactor == scaleFactorOf(deltaY)
      newScale == clamp(FxMul(transform.scale, scaleFactor), MIN_SCALE, MAX_SCALE)
      mouseX == clientX(p) - Fx(Rect.left)
      mouseY == clientY(p) - Fx(Rect.top)
      zoomPointX == FxDiv(mouseX - transform.x, transform.scale)
      zoomPointY == FxDiv(mouseY - transform.y, transform.scale)
      newX == mouseX - FxMul(zoomPointX, newScale)
      newY == mouseY - FxMul(zoomPointY, newScale)
      maxX == mapWidth * (newScale - Fx(1))
      maxY == mapHeight * (newScale - Fx(1))
  IN  [scale |-> newScale,
       x |-> clamp(newX, -maxX, 0),
       y |-> clamp(newY, -maxY, 0)]

\* mutant: a wheel event ends the drag
handleWheelEndsDrag(deltaY) ==
  /\ settersDone = 0
  /\ UNCHANGED dataVars
  /\ pointerInside
  /\ Notch(deltaY)
  /\ IF WheelIgnored(deltaY)
       THEN UNCHANGED transform
       ELSE transform' = ZoomTransform(pointer, deltaY)
  /\ isDragging' = FALSE
  /\ UNCHANGED <<dragStart, bodyOverflow, pointer, pointerInside>>

handleWheel(deltaY) ==
  /\ settersDone = 0
  /\ UNCHANGED dataVars
  /\ pointerInside
  /\ Notch(deltaY)
  /\ IF WheelIgnored(deltaY)
       THEN UNCHANGED transform
       ELSE transform' = ZoomTransform(pointer, deltaY)
  /\ UNCHANGED <<isDragging, dragStart, bodyOverflow, pointer, pointerInside>>

(***************************************************************************)
(* Node lookup, connectivity and link rendering.                           *)
(***************************************************************************)
\* array.find(e => e.name === name): <<>> is undefined, <<node>> a node
RECURSIVE find(_, _)
find(array, name) ==
  IF array = <<>>
    THEN <<>>
    ELSE IF Head(array).name = name
           THEN <<Head(array)>>
           ELSE find(Tail(array), name)

\* a || b on lookup results
OrElse(a, b) == IF a # <<>> THEN a ELSE b

\* mutant: the vessels are not searched
findNodeNoVessels(name) ==
  OrElse(find(satellites, name), find(groundStations, name))

findNode(name) ==
  OrElse(find(satellites, name),
         OrElse(find(groundStations, name), find(vessels, name)))

\* Set.prototype.add on a Set kept in insertion order
SetAdd(set, element) ==
  IF \E i \in 1..Len(set) : set[i] = element
    THEN set
    ELSE Append(set, element)

\* satelliteLinks.forEach of getConnectedNodes, from the Set connections
RECURSIVE addLinkEnds(_, _, _)
addLinkEnds(links, nodeName, connections) ==
  IF links = <<>>
    THEN connections
    ELSE LET link == Head(links)
             added ==
               IF link.up
                 THEN IF link.node1_name = nodeName
                        THEN SetAdd(connections, link.node2_name)
                        ELSE IF link.node2_name = nodeName
                               THEN SetAdd(connections, link.node1_name)
                               ELSE connections
                 ELSE connections
         IN  addLinkEnds(Tail(links), nodeName, added)

\* station.uplinks.forEach(uplink => connections.add(uplink.sat_node))
RECURSIVE addSatNodes(_, _)
addSatNodes(uplinks, connections) ==
  IF uplinks = <<>>
    THEN connections
    ELSE addSatNodes(Tail(uplinks), SetAdd(connections, Head(uplinks).sat_node))

\* station.uplinks.forEach: add the ground node for every uplink to nodeName
RECURSIVE addGroundNode(_, _, _, _)
addGroundNode(uplinks, groundNode, nodeName, connections) ==
  IF uplinks = <<>>
    THEN connections
    ELSE addGroundNode(Tail(uplinks), groundNode, nodeName,
                       IF Head(uplinks).sat_node = nodeName
                         THEN SetAdd(connections, groundNode)
                         ELSE connections)

\* mutant: the else branch is missing, uplinks are followed one way only
RECURSIVE addUplinkEndsOneWay(_, _, _)
addUplinkEndsOneWay(stations, nodeName, connections) ==
  IF stations = <<>>
    THEN connections
    ELSE LET station == Head(stations)
             added ==
               IF station.ground_node = nodeName
                 THEN addSatNodes(station.uplinks, connections)
                 ELSE connections
         IN  addUplinkEndsOneWay(Tail(stations), nodeName, added)

\* groundUplinks.forEach of getConnectedNodes
RECURSIVE addUplinkEnds(_, _, _)
addUplinkEnds(stations, nodeName, connections) ==
  IF stations = <<>>
    THEN connections
    ELSE LET station == Head(stations)
             added ==
               IF station.ground_node = nodeName
                 THEN addSatNodes(station.uplinks, connections)
                 ELSE addGroundNode(station.uplinks, station.ground_node,
                                    nodeName, connections)
         IN  addUplinkEnds(Tail(stations), nodeName, added)

\* the Set getConnectedNodes returns, in insertion order
getConnectedNodes(nodeName) ==
  addUplinkEnds(groundUplinks, nodeName,
                addLinkEnds(satelliteLinks, nodeName, <<>>))

\* mutant: the latitude axis is not flipped (south at the top)
getNodeCoordinatesSouthUp(node) ==
  <<FxMul(FxDiv(node.lon + Fx(180), Fx(360)), Fx(mapWidth)),
    FxMul(FxDiv(node.lat + Fx(90), Fx(180)), Fx(mapHeight))>>

getNodeCoordinates(node) ==
  <<FxMul(FxDiv(node.lon + Fx(180), Fx(360)), Fx(mapWidth)),
    FxMul(FxDiv(Fx(90) - node.lat, Fx(180)), Fx(mapHeight))>>

Red == "#ef4444"
Green == "#22c55e"
Blue == "#1d4ed8"

\* a <line> element; node1 and node2 are bookkeeping: the link it draws
Line(key, x1, y1, x2, y2, color, opacity, node1Name, node2Name) ==
  [key |-> key, x1 |-> x1, y1 |-> y1, x2 |-> x2, y2 |-> y2,
   stroke |-> color, strokeWidth |-> FxDiv(Fx(2), transform.scale),
   strokeOpacity |-> opacity, node1 |-> node1Name, node2 |-> node2Name]

Abs(n) == IF n < 0 THEN -n ELSE n

\* mutant: a wrapped link is always drawn as if node1 were the western node
drawLinkWestFirst(node1Name, node2Name, color, opacity, keyPrefix) ==
  LET node1 == findNode(node1Name)
      node2 == findNode(node2Name)
  IN  IF node1 = <<>> \/ node2 = <<>>
        THEN <<>>
        ELSE
          LET c1 == getNodeCoordinates(node1[1])
              c2 == getNodeCoordinates(node2[1])
              x1 == c1[1]
              y1 == c1[2]
              x2 == c2[1]
              y2 == c2[2]
              dx == x2 - x1
          IN  IF Abs(dx) > FxDiv(Fx(mapWidth), Fx(2))
                THEN <<Line(keyPrefix \o <<"left">>, x1, y1,
                            x2 - Fx(mapWidth), y2, color, opacity,
                            node1Name, node2Name),
                       Line(keyPrefix \o <<"right">>, x1 + Fx(mapWidth),
                            y1, x2, y2, color, opacity,
                            node1Name, node2Name)>>
                ELSE <<Line(keyPrefix, x1, y1, x2, y2, color, opacity,
                            node1Name, node2Name)>>

\* mutant: the link is split from half the map width on (>= instead of >)
drawLinkSplitAtHalf(node1Name, node2Name, color, opacity, keyPrefix) ==
  LET node1 == findNode(node1Name)
      node2 == findNode(node2Name)
  IN  IF node1 = <<>> \/ node2 = <<>>
        THEN <<>>
        ELSE
          LET c1 == getNodeCoordinates(node1[1])
              c2 == getNodeCoordinates(node2[1])
              x1 == c1[1]
              y1 == c1[2]
              x2 == c2[1]
              y2 == c2[2]
              dx == x2 - x1
          IN  IF Abs(dx) >= FxDiv(Fx(mapWidth), Fx(2))
                THEN IF x1 < x2
                       THEN <<Line(keyPrefix \o <<"left">>, x1, y1,
                                   x2 - Fx(mapWidth), y2, color, opacity,
                                   node1Name, node2Name),
                              Line(keyPrefix \o <<"right">>, x1 + Fx(mapWidth),
                                   y1, x2, y2, color, opacity,
                                   node1Name, node2Name)>>
                       ELSE <<Line(keyPrefix \o <<"left">>, x1 - Fx(mapWidth),
                                   y1, x2, y2, color, opacity,
                                   node1Name, node2Name),
                              Line(keyPrefix \o <<"right">>, x1, y1,
                                   x2 + Fx(mapWidth), y2, color, opacity,
                                   node1Name, node2Name)>>
                ELSE <<Line(keyPrefix, x1, y1, x2, y2, color, opacity,
                            node1Name, node2Name)>>

\* the <line> elements one drawLink call pushes
drawLink(node1Name, node2Name, color, opacity, keyPrefix) ==
  LET node1 == findNode(node1Name)
      node2 == findNode(node2Name)
  IN  IF node1 = <<>> \/ node2 = <<>>
        THEN <<>>
        ELSE
          LET c1 == getNodeCoordinates(node1[1])
              c2 == getNodeCoordinates(node2[1])
              x1 == c1[1]
              y1 == c1[2]
              x2 == c2[1]
              y2 == c2[2]
              dx == x2 - x1
          IN  IF Abs(dx) > FxDiv(Fx(mapWidth), Fx(2))
                THEN IF x1 < x2
                       THEN <<Line(keyPrefix \o <<"left">>, x1, y1,
                                   x2 - Fx(mapWidth), y2, color, opacity,
                                   node1Name, node2Name),
                              Line(keyPrefix \o <<"right">>, x1 + Fx(mapWidth),
                                   y1, x2, y2, color, opacity,
                                   node1Name, node2Name)>>
                       ELSE <<Line(keyPrefix \o <<"left">>, x1 - Fx(mapWidth),
                                   y1, x2, y2, color, opacity,
                                   node1Name, node2Name),
                              Line(keyPrefix \o <<"right">>, x1, y1,
                                   x2 + Fx(mapWidth), y2, color, opacity,
                                   node1Name, node2Name)>>
                ELSE <<Line(keyPrefix, x1, y1, x2, y2, color, opacity,
                            node1Name, node2Name)>>

\* if (hoveredNode): null and the empty string are falsy
Truthy(hovered) == hovered # <<>> /\ hovered[1] # <<>>

\* the colour of the link from the hovered node to otherName
hoverColor(hoveredName, otherName) ==
  LET isGroundLink ==
        \/ startsWith(hoveredName, <<"G", "_">>)
        \/ startsWith(hoveredName, <<"V", "_">>)
        \/ startsWith(otherName, <<"G", "_">>)
        \/ startsWith(otherName, <<"V", "_">>)
  IN  IF isGroundLink
        THEN Red
        ELSE IF areInSamePlane(hoveredName, otherName) THEN Green ELSE Blue

\* connected.forEach of the hover branch; keyCounter is the next key number
RECURSIVE drawHoverLinks(_, _, _)
drawHoverLinks(hoveredName, connected, keyCounter) ==
  IF connected = <<>>
    THEN <<>>
    ELSE drawLink(hoveredName, Head(connected),
                  hoverColor(hoveredName, Head(connected)), Fx(1),
                  <<"hover", keyCounter>>)
         \o drawHoverLinks(hoveredName, Tail(connected), keyCounter + 1)

\* mutant: the test of link.up is missing
RECURSIVE drawSatelliteLinksAnyState(_, _, _, _)
drawSatelliteLinksAnyState(links, idx, inPlaneOn, crossPlaneOn) ==
  IF links = <<>>
    THEN <<>>
    ELSE LET link == Head(links)
             inPlane == areInSamePlane(link.node1_name, link.node2_name)
             drawn ==
               IF \/ inPlane /\ inPlaneOn
                  \/ ~inPlane /\ crossPlaneOn
                 THEN drawLink(link.node1_name, link.node2_name,
                               IF inPlane THEN Green ELSE Blue, Lit(1, 2),
                               <<"sat", idx>>)
                 ELSE <<>>
         IN  drawn \o drawSatelliteLinksAnyState(Tail(links), idx + 1,
                                                 inPlaneOn, crossPlaneOn)

\* satelliteLinks.forEach of the toggle branch, from index idx on
RECURSIVE drawSatelliteLinks(_, _, _, _)
drawSatelliteLinks(links, idx, inPlaneOn, crossPlaneOn) ==
  IF links = <<>>
    THEN <<>>
    ELSE LET link == Head(links)
             inPlane == areInSamePlane(link.node1_name, link.node2_name)
             drawn ==
               IF /\ link.up
                  /\ \/ inPlane /\ inPlaneOn
                     \/ ~inPlane /\ crossPlaneOn
                 THEN drawLink(link.node1_name, link.node2_name,
                               IF inPlane THEN Green ELSE Blue, Lit(1, 2),
                               <<"sat", idx>>)
                 ELSE <<>>
         IN  drawn \o drawSatelliteLinks(Tail(links), idx + 1, inPlaneOn,
                                         crossPlaneOn)

\* station.uplinks.forEach of the toggle branch, from index uIdx on
\* (an uplink is an object, so the test if (uplink) passes)
RECURSIVE drawStationUplinks(_, _, _, _)
drawStationUplinks(groundNode, uplinks, sIdx, uIdx) ==
  IF uplinks = <<>>
    THEN <<>>
    ELSE drawLink(groundNode, Head(uplinks).sat_node, Red, Lit(1, 2),
                  <<"gs", sIdx, uIdx>>)
         \o drawStationUplinks(groundNode, Tail(uplinks), sIdx, uIdx + 1)

\* groundUplinks.forEach of the toggle branch, from index sIdx on
RECURSIVE drawGroundUplinks(_, _)
drawGroundUplinks(stations, sIdx) ==
  IF stations = <<>>
    THEN <<>>
    ELSE drawStationUplinks(Head(stations).ground_node,
                            Head(stations).uplinks, sIdx, 0)
         \o drawGroundUplinks(Tail(stations), sIdx + 1)

\* mutant: the hover branch does not return, the toggle branches follow it
renderLinksForNoReturn(hovered, inPlaneOn, crossPlaneOn, groundOn) ==
  (IF Truthy(hovered)
     THEN drawHoverLinks(hovered[1], getConnectedNodes(hovered[1]), 0)
     ELSE <<>>)
  \o (IF inPlaneOn \/ crossPlaneOn
        THEN drawSatelliteLinks(satelliteLinks, 0, inPlaneOn, crossPlaneOn)
        ELSE <<>>)
  \o (IF groundOn THEN drawGroundUplinks(groundUplinks, 0) ELSE <<>>)

\* renderLinks() for a given hover state and given toggles
renderLinksFor(hovered, inPlaneOn, crossPlaneOn, groundOn) ==
  IF Truthy(hovered)
    THEN drawHoverLinks(hovered[1], getConnectedNodes(hovered[1]), 0)
    ELSE (IF inPlaneOn \/ crossPlaneOn
            THEN drawSatelliteLinks(satelliteLinks, 0, inPlaneOn, crossPlaneOn)
            ELSE <<>>)
         \o (IF groundOn THEN drawGroundUplinks(groundUplinks, 0) ELSE <<>>)

\* the <line> elements of the current frame
renderLinks ==
  renderLinksFor(hoveredNode, showInPlaneLinks, showCrossPlaneLinks,
                 showGroundLinks)

\* the names renderNodes draws an icon for
RenderedNames ==
  LET allNodes == satellites \o groundStations \o vessels
  IN  {allNodes[i].name : i \in 1..Len(allNodes)}

(***************************************************************************)
(* Node icons and checkboxes.                                              *)
(***************************************************************************)
\* onMouseEnter of the icon of node name
nodeMouseEnter(name) ==
  /\ settersDone = 0
  /\ name \in RenderedNames
  /\ overNode = <<>>
  /\ overNode' = <<name>>
  /\ hoveredNode' = <<name>>
  /\ UNCHANGED <<viewVars, pointerVars, pageVars, collections, toggles, fetchVars, bookVars>>

\* onMouseLeave of the icon of node name
nodeMouseLeave(name) ==
  /\ settersDone = 0
  /\ name \in RenderedNames
  /\ overNode = <<name>>
  /\ overNode' = <<>>
  /\ hoveredNode' = <<>>
  /\ UNCHANGED <<viewVars, pointerVars, pageVars, collections, toggles, fetchVars, bookVars>>

\* mutant: any name beginning with G goes to the station view
handleNodeClickAnyG(nodeName) ==
  LET path == IF startsWith(nodeName, <<"R">>) THEN "router"
              ELSE IF startsWith(nodeName, <<"G">>) THEN "station"
              ELSE "vessel"
  IN  [url |-> <<"/view/", path, "/">> \o nodeName, target |-> "_blank"]

\* the window.open call of handleNodeClick; the URL is the sequence of the
\* parts of the template string
handleNodeClick(nodeName) ==
  LET path == IF startsWith(nodeName, <<"R">>) THEN "router"
              ELSE IF startsWith(nodeName, <<"G", "_">>) THEN "station"
              ELSE "vessel"
  IN  [url |-> <<"/view/", path, "/">> \o nodeName, target |-> "_blank"]

\* onClick of the icon of node name
nodeClick(name) ==
  /\ settersDone = 0
  /\ name \in RenderedNames
  /\ overNode = <<name>>
  /\ Len(opened) < MaxClicks
  /\ opened' = Append(opened, handleNodeClick(name))
  /\ UNCHANGED <<viewVars, pointerVars, mountVars, collections, toggles,
                 hoveredNode, fetchVars, overNode, bookVars>>

\* onChange of the checkbox Show In-Plane Links
changeShowInPlaneLinks ==
  /\ settersDone = 0
  /\ showInPlaneLinks' = ~showInPlaneLinks
  /\ UNCHANGED <<viewVars, pointerVars, pageVars, collections, showCrossPlaneLinks,
                 showGroundLinks, hoveredNode, fetchVars, overNode, bookVars>>

\* onChange of the checkbox Show Cross-Plane Links
changeShowCrossPlaneLinks ==
  /\ settersDone = 0
  /\ showCrossPlaneLinks' = ~showCrossPlaneLinks
  /\ UNCHANGED <<viewVars, pointerVars, pageVars, collections, showInPlaneLinks,
                 showGroundLinks, hoveredNode, fetchVars, overNode, bookVars>>

\* onChange of the checkbox Show Up Links
changeShowGroundLinks ==
  /\ settersDone = 0
  /\ showGroundLinks' = ~showGroundLinks
  /\ UNCHANGED <<viewVars, pointerVars, pageVars, collections, showInPlaneLinks,
                 showCrossPlaneLinks, hoveredNode, fetchVars, overNode, bookVars>>

(***************************************************************************)
(* fetchPositions.  The code after the awaits runs outside any React       *)
(* event handler, where React 17 does not batch: each of the five setters  *)
(* renders a frame before the next one runs.  No event is handled in       *)
(* between (settersDone > 0 disables every handler).                       *)
(***************************************************************************)
\* data.key || []
OrEmpty(field) == IF field = Absent THEN <<>> ELSE field[1]

\* the five collections after a refresh has stored the payload data
StoredOf(data) ==
  <<OrEmpty(data.satellites), OrEmpty(data.ground_stations),
    OrEmpty(data.vessels), OrEmpty(data.satellite_links),
    OrEmpty(data.ground_uplinks)>>

\* the icon under the pointer, if it is still drawn
StillOver(names) ==
  IF overNode # <<>> /\ overNode[1] \in names THEN overNode ELSE <<>>

\* setInterval(fetchPositions, 10000) fires: a fetch is started
timerTick ==
  /\ interval = "set"
  /\ settersDone = 0
  /\ started < MaxFetches
  /\ started' = started + 1
  /\ inFlight' = inFlight \cup {started + 1}
  /\ UNCHANGED <<viewVars, pointerVars, pageVars, collections, toggles, hoveredNode,
                 pending, settersDone, overNode, bookVars>>

\* mutant: the catch block empties the collections
fetchRejectedClearsData(id) ==
  /\ settersDone = 0
  /\ id \in inFlight
  /\ inFlight' = inFlight \ {id}
  /\ lastFetch' = "rejected"
  /\ UNCHANGED newestStored
  /\ satellites' = <<>>
  /\ groundStations' = <<>>
  /\ vessels' = <<>>
  /\ satelliteLinks' = <<>>
  /\ groundUplinks' = <<>>
  /\ UNCHANGED <<viewVars, pointerVars, pageVars, toggles, hoveredNode,
                 started, pending, settersDone, overNode, gestures, lastEvent,
                 prevEvent, dragOrigin,
                 wheelRun>>

\* fetch or res.json() of fetch id rejects: the catch block logs the error
fetchRejected(id) ==
  /\ settersDone = 0
  /\ id \in inFlight
  /\ inFlight' = inFlight \ {id}
  /\ lastFetch' = "rejected"
  /\ UNCHANGED newestStored
  /\ UNCHANGED <<viewVars, pointerVars, pageVars, collections, toggles, hoveredNode,
                 started, pending, settersDone, overNode, gestures, lastEvent,
                 prevEvent, dragOrigin,
                 wheelRun>>

\* mutant: storing a snapshot clears the hover
fetchResolvedDropsHover(id, data) ==
  /\ mounted
  /\ settersDone = 0
  /\ id \in inFlight
  /\ inFlight' = inFlight \ {id}
  /\ pending' = <<data>>
  /\ satellites' = OrEmpty(data.satellites)
  /\ settersDone' = 1
  /\ UNCHANGED <<groundStations, vessels, satelliteLinks, groundUplinks>>
  /\ overNode' = StillOver(RenderedNames')
  /\ lastFetch' = "resolved"
  /\ newestStored' = Newest(newestStored, [id |-> id, stored |-> StoredOf(data)])
  /\ hoveredNode' = <<>>
  /\ UNCHANGED <<viewVars, pointerVars, pageVars, toggles, started,
                 gestures, lastEvent, prevEvent, dragOrigin,
                 wheelRun>>

\* res.json() of fetch id resolves with data; setSatellites runs
fetchResolved(id, data) ==
  /\ mounted
  /\ settersDone = 0
  /\ id \in inFlight
  /\ inFlight' = inFlight \ {id}
  /\ pending' = <<data>>
  /\ satellites' = OrEmpty(data.satellites)
  /\ settersDone' = 1
  /\ UNCHANGED <<groundStations, vessels, satelliteLinks, groundUplinks>>
  /\ overNode' = StillOver(RenderedNames')
  /\ lastFetch' = "resolved"
  /\ newestStored' = Newest(newestStored, [id |-> id, stored |-> StoredOf(data)])
  /\ UNCHANGED <<viewVars, pointerVars, pageVars, toggles, hoveredNode, started,
                 gestures, lastEvent, prevEvent, dragOrigin,
                 wheelRun>>

\* res.json() of fetch id resolves after the unmount: React ignores the
\* setters of an unmounted component
fetchResolvedUnmounted(id) ==
  /\ ~mounted
  /\ id \in inFlight
  /\ inFlight' = inFlight \ {id}
  /\ lastFetch' = "resolved"
  /\ UNCHANGED newestStored
  /\ UNCHANGED <<viewVars, pointerVars, pageVars, collections, toggles, hoveredNode,
                 started, pending, settersDone, overNode, gestures, lastEvent,
                 prevEvent, dragOrigin,
                 wheelRun>>

\* mutant: the effect returns no cleanup, the timer keeps running
unmountKeepsInterval ==
  /\ mounted
  /\ settersDone = 0
  /\ mounted' = FALSE
  /\ UNCHANGED <<viewVars, pointerVars, opened, interval, collections, toggles,
                 hoveredNode, fetchVars, overNode, bookVars>>

\* the component is unmounted: React runs the cleanup of the effect,
\* clearInterval(interval)
unmount ==
  /\ mounted
  /\ settersDone = 0
  /\ mounted' = FALSE
  /\ interval' = "cleared"
  /\ UNCHANGED <<viewVars, pointerVars, opened, collections, toggles,
                 hoveredNode, fetchVars, overNode, bookVars>>

runSetGroundStations ==
  /\ settersDone = 1
  /\ groundStations' = OrEmpty(pending[1].ground_stations)
  /\ settersDone' = 2
  /\ UNCHANGED <<satellites, vessels, satelliteLinks, groundUplinks>>
  /\ overNode' = StillOver(RenderedNames')
  /\ UNCHANGED <<viewVars, pointerVars, pageVars, toggles, hoveredNode, inFlight,
                 started, pending, bookVars>>

\* mutant: a missing key keeps the previous vessels (data.vessels || vessels)
runSetVesselsKeepsPrevious ==
  /\ settersDone = 2
  /\ vessels' = IF pending[1].vessels = Absent THEN vessels
                ELSE pending[1].vessels[1]
  /\ settersDone' = 3
  /\ UNCHANGED <<satellites, groundStations, satelliteLinks, groundUplinks>>
  /\ overNode' = StillOver(RenderedNames')
  /\ UNCHANGED <<viewVars, pointerVars, pageVars, toggles, hoveredNode, inFlight,
                 started, pending, bookVars>>

runSetVessels ==
  /\ settersDone = 2
  /\ vessels' = OrEmpty(pending[1].vessels)
  /\ settersDone' = 3
  /\ UNCHANGED <<satellites, groundStations, satelliteLinks, groundUplinks>>
  /\ overNode' = StillOver(RenderedNames')
  /\ UNCHANGED <<viewVars, pointerVars, pageVars, toggles, hoveredNode, inFlight,
                 started, pending, bookVars>>

runSetSatelliteLinks ==
  /\ settersDone = 3
  /\ satelliteLinks' = OrEmpty(pending[1].satellite_links)
  /\ settersDone' = 4
  /\ UNCHANGED <<satellites, groundStations, vessels, groundUplinks>>
  /\ UNCHANGED <<viewVars, pointerVars, pageVars, toggles, hoveredNode, inFlight,
                 started, pending, overNode, bookVars>>

runSetGroundUplinks ==
  /\ settersDone = 4
  /\ groundUplinks' = OrEmpty(pending[1].ground_uplinks)
  /\ settersDone' = 0
  /\ pending' = <<>>
  /\ UNCHANGED <<satellites, groundStations, vessels, satelliteLinks>>
  /\ UNCHANGED <<viewVars, pointerVars, pageVars, toggles, hoveredNode, inFlight,
                 started, overNode, bookVars>>

Next ==
  \/ \E button \in Buttons : handleMouseDown(button)
  \/ \E p \in Pointers : handleMouseMove(p)
  \/ handleMouseUp
  \/ \E p \in Pointers : handleMapEnter(p)
  \/ handleMapLeave
  \/ \E deltaY \in DeltaYs : handleWheel(deltaY)

\* the viewport: pointer and wheel events on the map
Spec == Init /\ [][Next]_vars

NextLinks ==
  \/ started < RefreshFetches /\ timerTick
  \/ \E id \in 1..MaxFetches : fetchRejected(id)
  \/ \E id \in 1..MaxFetches : \E data \in Snapshots : fetchResolved(id, data)
  \/ runSetGroundStations
  \/ runSetVessels
  \/ runSetSatelliteLinks
  \/ runSetGroundUplinks
  \/ \E name \in Names : nodeMouseEnter(name)
  \/ \E name \in Names : nodeMouseLeave(name)
  \/ \E name \in Names : nodeClick(name)
  \/ changeShowInPlaneLinks
  \/ changeShowCrossPlaneLinks
  \/ changeShowGroundLinks

\* the data: refreshes, node hover, clicks and the checkboxes
SpecLinks == Init /\ [][NextLinks]_vars

NextStale ==
  \/ timerTick
  \/ \E id \in 1..MaxFetches : \E data \in Snapshots : fetchResolved(id, data)
  \/ runSetGroundStations
  \/ runSetVessels
  \/ runSetSatelliteLinks
  \/ runSetGroundUplinks
  \/ \E name \in Names : nodeMouseEnter(name)
  \/ \E name \in Names : nodeMouseLeave(name)
  \/ changeShowInPlaneLinks
  \/ changeShowCrossPlaneLinks
  \/ changeShowGroundLinks

\* hover, checkboxes and a longer run of successful refreshes
SpecStale == Init /\ [][NextStale]_vars

\* the handlers of a mounted component
NextMounted ==
  \/ \E id \in 1..MaxFetches : \E data \in Snapshots : fetchResolved(id, data)
  \/ runSetGroundStations
  \/ runSetVessels
  \/ runSetSatelliteLinks
  \/ runSetGroundUplinks
  \/ \E name \in Names : nodeMouseEnter(name)
  \/ \E name \in Names : nodeMouseLeave(name)
  \/ changeShowGroundLinks

NextMount ==
  \/ mounted /\ NextMounted
  \/ timerTick
  \/ \E id \in 1..MaxFetches : fetchRejected(id)
  \/ \E id \in 1..MaxFetches : fetchResolvedUnmounted(id)
  \/ unmount

\* the life of the component: mount, refreshes, unmount
SpecMount == Init /\ [][NextMount]_vars

NextRefresh ==
  \/ gestures < RefreshGestures /\ Next
  \/ started < RefreshFetches /\ timerTick
  \/ \E id \in 1..MaxFetches : fetchRejected(id)
  \/ \E id \in 1..MaxFetches : \E data \in Snapshots : fetchResolved(id, data)
  \/ runSetGroundStations
  \/ runSetVessels
  \/ runSetSatelliteLinks
  \/ runSetGroundUplinks
  \/ \E name \in Names : nodeMouseEnter(name)
  \/ \E name \in Names : nodeMouseLeave(name)
  \/ changeShowGroundLinks

\* refreshes in the middle of pointer, wheel, hover and checkbox events
SpecRefresh == Init /\ [][NextRefresh]_vars

\* the state after a first refresh that stored a generated snapshot
InitGraph ==
  /\ transform = [x |-> 0, y |-> 0, scale |-> Fx(1)]
  /\ isDragging = FALSE
  /\ dragStart = [x |-> 0, y |-> 0]
  /\ bodyOverflow = ""
  /\ pointer = <<0, 0>>
  /\ pointerInside = FALSE
  /\ \E data \in GraphSnapshots :
       /\ satellites = OrEmpty(data.satellites)
       /\ groundStations = OrEmpty(data.ground_stations)
       /\ vessels = OrEmpty(data.vessels)
       /\ satelliteLinks = OrEmpty(data.satellite_links)
       /\ groundUplinks = OrEmpty(data.ground_uplinks)
  /\ showInPlaneLinks = FALSE
  /\ showCrossPlaneLinks = FALSE
  /\ showGroundLinks = FALSE
  /\ hoveredNode = <<>>
  /\ inFlight = {}
  /\ started = 1
  /\ pending = <<>>
  /\ settersDone = 0
  /\ overNode = <<>>
  /\ opened = <<>>
  /\ mounted = TRUE
  /\ interval = "set"
  /\ gestures = 0
  /\ wheelRun = 0
  /\ dragOrigin = <<>>
  /\ lastEvent = [type |-> "none", arg |-> 0]
  /\ prevEvent = [type |-> "none", arg |-> 0]
  /\ lastFetch = "none"
  /\ newestStored = <<>>

NextGraph ==
  \/ \E name \in Names : nodeMouseEnter(name)
  \/ \E name \in Names : nodeMouseLeave(name)
  \/ changeShowInPlaneLinks
  \/ changeShowCrossPlaneLinks
  \/ changeShowGroundLinks

\* connectivity and rendering over every generated snapshot
SpecGraph == InitGraph /\ [][NextGraph]_vars

\* latitudes and longitudes of the projected nodes: the ends and the middle
\* of the ranges, and values one step of the Number resolution apart
LatGrid == {Fx(-90), Fx(-45), Fx(0), Fx(0) + 1, Fx(90)}

LonGrid == {Fx(-180), Fx(-90), Fx(0), Fx(0) + 1, Fx(90), Fx(180)}

\* the state after a first refresh that stored two satellites at any two
\* positions of the grid
InitProject ==
  /\ transform = [x |-> 0, y |-> 0, scale |-> Fx(1)]
  /\ isDragging = FALSE
  /\ dragStart = [x |-> 0, y |-> 0]
  /\ bodyOverflow = ""
  /\ pointer = <<0, 0>>
  /\ pointerInside = FALSE
  /\ \E lat1, lat2 \in LatGrid : \E lon1, lon2 \in LonGrid :
       satellites = <<[name |-> R1_A, lat |-> lat1, lon |-> lon1],
                      [name |-> R1_B, lat |-> lat2, lon |-> lon2]>>
  /\ groundStations = <<>>
  /\ vessels = <<>>
  /\ satelliteLinks = <<Link(R1_A, R1_B, TRUE)>>
  /\ groundUplinks = <<>>
  /\ showInPlaneLinks = FALSE
  /\ showCrossPlaneLinks = FALSE
  /\ showGroundLinks = FALSE
  /\ hoveredNode = <<>>
  /\ inFlight = {}
  /\ started = 1
  /\ pending = <<>>
  /\ settersDone = 0
  /\ overNode = <<>>
  /\ opened = <<>>
  /\ mounted = TRUE
  /\ interval = "set"
  /\ gestures = 0
  /\ wheelRun = 0
  /\ dragOrigin = <<>>
  /\ lastEvent = [type |-> "none", arg |-> 0]
  /\ prevEvent = [type |-> "none", arg |-> 0]
  /\ lastFetch = "none"
  /\ newestStored = <<>>

NextProject ==
  \/ \E name \in Names : nodeMouseEnter(name)
  \/ \E name \in Names : nodeMouseLeave(name)
  \/ changeShowInPlaneLinks

\* the projection of two nodes at any two positions
SpecProject == InitProject /\ [][NextProject]_vars

(***************************************************************************)
(* Properties of the viewport (specification Spec).                        *)
(***************************************************************************)
\* the pan range of one axis at a given scale
PanMin(size, scale) == -(size * (scale - Fx(1)))

\* v limited to [lo, hi]
Limited(v, lo, hi) == IF v < lo THEN lo ELSE IF v > hi THEN hi ELSE v

\* the last event was a pointer move that dragged the map
DragMoved ==
  /\ lastEvent.type = "mousemove"
  /\ isDragging

\* C1: after every step of any sequence of drag moves and wheel zooms, panX
\* is in [-mapWidth*(scale-1), 0], panY is in [-mapHeight*(scale-1), 0] and
\* scale is in [1, MAX_SCALE], the bounds taken at the scale of that state.
C1_ClampInvariant ==
  /\ PanMin(mapWidth, transform.scale) <= transform.x
  /\ transform.x <= 0
  /\ PanMin(mapHeight, transform.scale) <= transform.y
  /\ transform.y <= 0
  /\ Fx(1) <= transform.scale
  /\ transform.scale <= MAX_SCALE

\* a drag move handled directly after a wheel zoom that changed the scale,
\* stopped by the clamp at the far edge of both axes
C1_Witness ==
  /\ DragMoved
  /\ prevEvent.type = "wheel"
  /\ MIN_SCALE < transform.scale
  /\ transform.scale < MAX_SCALE
  /\ transform.x = PanMin(mapWidth, transform.scale)
  /\ transform.y = PanMin(mapHeight, transform.scale)

\* C2: a pointerDown with the primary button starts a drag and records
\* dragAnchor = pointer - pan per axis; with any other button it changes
\* neither dragging nor dragAnchor; pan and scale are unchanged in both cases.
C2_DragStart ==
  [][lastEvent'.type = "mousedown" =>
       /\ transform' = transform
       /\ IF lastEvent'.arg = 0
            THEN /\ isDragging' = TRUE
                 /\ dragStart'.x = clientX(pointer) - transform.x
                 /\ dragStart'.y = clientY(pointer) - transform.y
            ELSE /\ isDragging' = isDragging
                 /\ dragStart' = dragStart]_vars

\* a primary pointerDown on a panned map: the anchor is not the pointer
C2_Witness ==
  /\ lastEvent = [type |-> "mousedown", arg |-> 0]
  /\ isDragging
  /\ transform.x < 0
  /\ transform.y < 0
  /\ dragStart.x = clientX(pointer) - transform.x
  /\ dragStart.y = clientY(pointer) - transform.y

\* C3: while Dragging a pointerMove sets pan to pointer - dragAnchor limited
\* per axis to the pan range, keeps scale and dragAnchor and stays Dragging;
\* while Idle a pointerMove changes no state of the component.
C3_DragMove ==
  [][lastEvent'.type = "mousemove" =>
       IF isDragging
         THEN /\ transform'.x = Limited(clientX(pointer') - dragStart.x,
                                        PanMin(mapWidth, transform.scale), 0)
              /\ transform'.y = Limited(clientY(pointer') - dragStart.y,
                                        PanMin(mapHeight, transform.scale), 0)
              /\ transform'.scale = transform.scale
              /\ dragStart' = dragStart
              /\ isDragging' = TRUE
         ELSE UNCHANGED <<viewVars, collections, toggles, hoveredNode>>]_vars

\* a drag move that pans freely: the pan is pointer - dragAnchor on both axes
C3_Witness ==
  /\ DragMoved
  /\ PanMin(mapWidth, transform.scale) < transform.x
  /\ transform.x < 0
  /\ transform.x = clientX(pointer) - dragStart.x
  /\ PanMin(mapHeight, transform.scale) < transform.y
  /\ transform.y < 0
  /\ transform.y = clientY(pointer) - dragStart.y

\* C4: after a pointerUp or a viewport leave the controller is Idle; dragging
\* is false whenever the pointer is outside; dragging begins only with a
\* primary pointerDown, and an Idle pointerMove does not change the pan.
C4_NoStuckDrag ==
  /\ [](~pointerInside => ~isDragging)
  /\ [][lastEvent'.type \in {"mouseup", "mouseleave"} => ~isDragging']_vars
  /\ [][~isDragging /\ isDragging' =>
          lastEvent' = [type |-> "mousedown", arg |-> 0]]_vars
  /\ [][lastEvent'.type = "mousemove" /\ ~isDragging =>
          transform' = transform]_vars

\* the pointer left the viewport in the middle of a drag
C4_Witness ==
  /\ lastEvent.type = "mouseleave"
  /\ prevEvent = [type |-> "mousedown", arg |-> 0]
  /\ ~pointerInside
  /\ ~isDragging

\* C5: page scroll is suppressed exactly while the pointer is inside the
\* viewport: entering sets the lock, leaving releases it.
C5_ScrollLock == (bodyOverflow = "hidden") <=> pointerInside

\* the pointer is back inside after a leave that followed a drag start
C5_Witness ==
  /\ lastEvent.type = "mouseenter"
  /\ prevEvent.type = "mouseleave"
  /\ dragStart.x # 0
  /\ pointerInside
  /\ bodyOverflow = "hidden"

(***************************************************************************)
(* Properties of connectivity and link rendering (specifications           *)
(* SpecLinks and SpecGraph).                                               *)
(***************************************************************************)
Range(seq) == {seq[i] : i \in 1..Len(seq)}

\* the name is the name of a node of one of the three collections
Resolvable(name) ==
  \E node \in Range(satellites) \cup Range(groundStations) \cup Range(vessels) :
    node.name = name

\* the category and the plane id of every name of the snapshots
GroundNames == {G_X}

VesselNames == {V_Y}

PlaneId == (R1_A :> 1) @@ (R1_B :> 1) @@ (R2_B :> 2) @@ (R12_C :> 12) @@ (R9_ZZ :> 9)

\* the colour of the class of the link between a and b
ClassColor(a, b) ==
  IF {a, b} \cap (GroundNames \cup VesselNames) # {}
    THEN Red
    ELSE IF PlaneId[a] = PlaneId[b] THEN Green ELSE Blue

\* the set connectedNodes(name) of the specification
ConnectedNodes(name) ==
  {l.node2_name : l \in {k \in Range(satelliteLinks) : k.up /\ k.node1_name = name}}
  \cup
  {l.node1_name : l \in {k \in Range(satelliteLinks) : k.up /\ k.node2_name = name}}
  \cup
  UNION {{u.sat_node : u \in Range(g.uplinks)} :
           g \in {k \in Range(groundUplinks) : k.ground_node = name}}
  \cup
  {g.ground_node :
     g \in {k \in Range(groundUplinks) :
              \E u \in Range(k.uplinks) : u.sat_node = name}}

\* C6: while a node is hovered the frame holds exactly one link from it to
\* each connected node whose endpoints both resolve, at opacity 1, and the
\* frame is the same for all 8 settings of the three toggles.
C6_HoverPrecedence ==
  hoveredNode # <<>> =>
    LET h == hoveredNode[1]
        expected ==
          {n \in Range(getConnectedNodes(h)) : Resolvable(h) /\ Resolvable(n)}
    IN  \A inPlaneOn, crossPlaneOn, groundOn \in BOOLEAN :
          LET frame == renderLinksFor(hoveredNode, inPlaneOn, crossPlaneOn, groundOn)
          IN  /\ frame = renderLinks
              /\ {<<f.node1, f.node2>> : f \in Range(frame)}
                   = {<<h, n>> : n \in expected}
              /\ \A f \in Range(frame) : f.strokeOpacity = Fx(1)
              /\ \A f, g \in Range(frame) :
                   (f.key[2] = g.key[2]) <=> (f.node2 = g.node2)

\* a node is hovered with all three toggles on, and the toggles alone would
\* draw a link that does not touch it
C6_Witness ==
  /\ hoveredNode # <<>>
  /\ showInPlaneLinks /\ showCrossPlaneLinks /\ showGroundLinks
  /\ renderLinks # <<>>
  /\ \E f \in Range(renderLinksFor(<<>>, TRUE, TRUE, TRUE)) :
       f.node1 # hoveredNode[1] /\ f.node2 # hoveredNode[1]

\* C7: every link drawn from a hovered node h to a connected node n is red
\* if h or n is a ground station or a vessel, else green if the two plane
\* ids are equal and blue if they differ.  (Every hover state and every
\* toggle setting is a state of SpecGraph.)
C7_HoverClassification ==
  hoveredNode # <<>> =>
    \A f \in Range(renderLinks) :
      /\ f.node1 = hoveredNode[1]
      /\ f.stroke = ClassColor(f.node1, f.node2)

\* R1_A is hovered and has a green link to R1_B, a blue link to R2_B and a
\* red link to G_X
C7_Witness ==
  /\ hoveredNode = <<R1_A>>
  /\ \E f \in Range(renderLinks) : f.node2 = R1_B /\ f.stroke = Green
  /\ \E f \in Range(renderLinks) : f.node2 = R2_B /\ f.stroke = Blue
  /\ \E f \in Range(renderLinks) : f.node2 = G_X /\ f.stroke = Red

\* C8: every link drawn in the toggle-driven frame has the colour it gets in
\* the hover-restricted frame when one of its endpoints is hovered.
C8_SameColorInBothModes ==
  \A f \in Range(renderLinksFor(<<>>, TRUE, TRUE, TRUE)) :
    \A g \in Range(renderLinksFor(<<f.node1>>, FALSE, FALSE, FALSE))
             \cup Range(renderLinksFor(<<f.node2>>, FALSE, FALSE, FALSE)) :
      {g.node1, g.node2} = {f.node1, f.node2} => g.stroke = f.stroke

\* C9: getConnectedNodes(name) holds exactly the other endpoints of the up
\* links touching name, the satNodes of the groups of name and the
\* groundNodes of the groups listing name, each once.
C9_ConnectedNodes ==
  \A name \in Names :
    LET connections == getConnectedNodes(name)
    IN  /\ Range(connections) = ConnectedNodes(name)
        /\ Cardinality(Range(connections)) = Len(connections)

\* G_X is hovered; an up link and its own group both join it to R1_A, and
\* the group of V_Y lists it
C9_Witness ==
  /\ hoveredNode = <<G_X>>
  /\ \E l \in Range(satelliteLinks) : l = Link(R1_A, G_X, TRUE)
  /\ \E g \in Range(groundUplinks) : g = Uplinks(G_X, <<R1_A>>)
  /\ \E g \in Range(groundUplinks) : g = Uplinks(V_Y, <<G_X, V_Y>>)
  /\ getConnectedNodes(G_X) = <<R1_A, V_Y>>
  /\ Len(renderLinks) = 2

\* an up link or an uplink joins a and b
Joined(a, b) ==
  \/ \E l \in Range(satelliteLinks) :
       l.up /\ {l.node1_name, l.node2_name} = {a, b}
  \/ \E g \in Range(groundUplinks) : \E u \in Range(g.uplinks) :
       {g.ground_node, u.sat_node} = {a, b}

\* the down links whose endpoints nothing else joins
LoneDownLinks ==
  {l \in Range(satelliteLinks) : ~l.up /\ ~Joined(l.node1_name, l.node2_name)}

\* C10: an orbital link with up = false gives no segment in any frame, hover
\* or toggle mode, and puts neither endpoint into the other's connected set,
\* unless an up link or an uplink joins the same pair.  (Every hover state
\* and every toggle setting is a state of SpecGraph.)
C10_DownLinksInvisible ==
  \A l \in LoneDownLinks :
    /\ \A f \in Range(renderLinks) :
         {f.node1, f.node2} # {l.node1_name, l.node2_name}
    /\ l.node2_name \notin Range(getConnectedNodes(l.node1_name))
    /\ l.node1_name \notin Range(getConnectedNodes(l.node2_name))

\* both orbital toggles are on, nothing is hovered, an up link is drawn and a
\* down link between two drawn nodes is not
C10_Witness ==
  /\ hoveredNode = <<>>
  /\ showInPlaneLinks /\ showCrossPlaneLinks
  /\ renderLinks # <<>>
  /\ \E l \in LoneDownLinks : Resolvable(l.node1_name) /\ Resolvable(l.node2_name)

(***************************************************************************)
(* Properties of drawLink (specification SpecGraph).                       *)
(***************************************************************************)
\* the projected position of the node called name
Projected(name) == getNodeCoordinates(findNode(name)[1])

\* the endpoints <<x1, y1, x2, y2>> of the segments of a list of <line>s
Segments(lines) ==
  [i \in 1..Len(lines) |-> <<lines[i].x1, lines[i].y1, lines[i].x2, lines[i].y2>>]

\* the <line>s of the current frame that draw the link from a to b
FrameLines(a, b) ==
  {f \in Range(renderLinks) : f.node1 = a /\ f.node2 = b}

\* the wrap rule for one drawLink(a, b, ...) call of the current state
WrapRule(a, b) ==
  Resolvable(a) /\ Resolvable(b) =>
    LET c1 == Projected(a)
        c2 == Projected(b)
        x1 == c1[1]
        y1 == c1[2]
        x2 == c2[1]
        y2 == c2[2]
        W == Fx(mapWidth)
        far == 2 * Abs(x2 - x1) > W
        segs == Segments(drawLink(a, b, Blue, Lit(1, 2), <<"k">>))
    IN  /\ (Len(segs) = 2) <=> far
        /\ (Len(segs) = 1) <=> ~far
        /\ ~far => segs = << <<x1, y1, x2, y2>> >>
        /\ far /\ x1 < x2 =>
             segs = << <<x1, y1, x2 - W, y2>>, <<x1 + W, y1, x2, y2>> >>
        /\ far /\ x1 >= x2 =>
             segs = << <<x1 - W, y1, x2, y2>>, <<x1, y1, x2 + W, y2>> >>
        /\ {<<f.x1, f.y1, f.x2, f.y2>> : f \in FrameLines(a, b)} \subseteq Range(segs)

\* C11: drawLink emits two segments iff |x2 - x1| > mapWidth / 2 and else the
\* one segment (x1,y1)->(x2,y2), also at |x2 - x1| = mapWidth / 2; the split
\* segments are (x1,y1)->(x2-W,y2), (x1+W,y1)->(x2,y2) if x1 < x2 and
\* (x1-W,y1)->(x2,y2), (x1,y1)->(x2+W,y2) if x1 >= x2.  Checked for every
\* link of the frame and for every link from the hovered node to any name
\* (every name is hovered in some state of SpecGraph).
C11_AntimeridianWrap ==
  /\ \A f \in Range(renderLinks) : WrapRule(f.node1, f.node2)
  /\ hoveredNode # <<>> => \A b \in Names : WrapRule(hoveredNode[1], b)

\* the frame draws R1_A (lon -170) to R1_B (lon 170) as two segments, R1_B to
\* R1_A as two, and R1_A to G_X (lon 10, exactly half the map away) as one
C11_Witness ==
  /\ hoveredNode = <<>>
  /\ Cardinality(FrameLines(R1_A, R1_B)) = 2
  /\ Cardinality(FrameLines(R2_B, R1_A)) = 1
  /\ Projected(G_X)[1] - Projected(R1_A)[1] = Fx(mapWidth) \div 2
  /\ Len(drawLink(R1_A, G_X, Red, Fx(1), <<"k">>)) = 1
  /\ Len(drawLink(R1_B, R1_A, Red, Fx(1), <<"k">>)) = 2
  /\ Len(drawLink(R1_A, R12_C, Red, Fx(1), <<"k">>)) = 2

\* the pairs <<a, b>> the hover branch calls drawLink for
HoverCalls ==
  {<<hoveredNode[1], n>> : n \in Range(getConnectedNodes(hoveredNode[1]))}

\* the pairs <<a, b>> the toggle branches call drawLink for
ToggleCalls ==
  {<<l.node1_name, l.node2_name>> :
     l \in {k \in Range(satelliteLinks) :
              /\ k.up
              /\ IF areInSamePlane(k.node1_name, k.node2_name)
                   THEN showInPlaneLinks
                   ELSE showCrossPlaneLinks}}
  \cup
  (IF showGroundLinks
     THEN UNION {{<<g.ground_node, u.sat_node>> : u \in Range(g.uplinks)} :
                   g \in Range(groundUplinks)}
     ELSE {})

\* the pairs <<a, b>> renderLinks calls drawLink for in the current state
DrawCalls == IF Truthy(hoveredNode) THEN HoverCalls ELSE ToggleCalls

\* the pairs the <line>s of the current frame draw
DrawnPairs == {<<f.node1, f.node2>> : f \in Range(renderLinks)}

\* C12: drawLink(a, b, ...) emits no segment when a or b names no node of
\* the three collections and at least one when both do (a vessel resolves
\* like a satellite or a ground station); a skipped link does not stop the
\* frame: every other link renderLinks calls drawLink for is still drawn.
C12_MissingEndpoint ==
  /\ \A a, b \in Names :
       (drawLink(a, b, Red, Fx(1), <<"k">>) = <<>>)
         <=> ~(Resolvable(a) /\ Resolvable(b))
  /\ DrawnPairs = {c \in DrawCalls : Resolvable(c[1]) /\ Resolvable(c[2])}

\* no node is hovered; the frame skips a link with an endpoint that is in no
\* collection and still draws another link, one that ends at a vessel
C12_Witness ==
  /\ hoveredNode = <<>>
  /\ \E c \in DrawCalls : ~Resolvable(c[1]) \/ ~Resolvable(c[2])
  /\ \E f \in Range(renderLinks) :
       /\ f.node1 = V_Y
       /\ find(vessels, V_Y) # <<>>
       /\ find(satellites, V_Y) = <<>>

(***************************************************************************)
(* Properties of the wheel zoom (specification Spec).                      *)
(***************************************************************************)
\* the cursor relative to the viewport, and the map-space point under it
MouseX == clientX(pointer) - Fx(Rect.left)

MouseY == clientY(pointer) - Fx(Rect.top)

MapPointX == FxDiv(MouseX - transform.x, transform.scale)

MapPointY == FxDiv(MouseY - transform.y, transform.scale)

\* two Numbers are equal up to the rounding of one product and one quotient
Close(a, b) == Abs(a - b) <= 1

\* the scale a wheel event asks for, before it is limited to the scale range
AskedScale(deltaY) == FxMul(transform.scale, scaleFactorOf(deltaY))

\* the zoom is not saturated: the scale asked for is inside the scale range
ScaleFree(deltaY) ==
  /\ MIN_SCALE <= AskedScale(deltaY)
  /\ AskedScale(deltaY) <= MAX_SCALE

\* the pan that keeps the map point under the cursor, per axis:
\* panX' = screenX - mapPointX * scale'
AnchoredX(deltaY) == MouseX - FxMul(MapPointX, AskedScale(deltaY))

AnchoredY(deltaY) == MouseY - FxMul(MapPointY, AskedScale(deltaY))

\* that pan is inside the pan range of the new scale
PanFreeX(deltaY) ==
  /\ PanMin(mapWidth, AskedScale(deltaY)) <= AnchoredX(deltaY)
  /\ AnchoredX(deltaY) <= 0

PanFreeY(deltaY) ==
  /\ PanMin(mapHeight, AskedScale(deltaY)) <= AnchoredY(deltaY)
  /\ AnchoredY(deltaY) <= 0

\* C13 as stated: whenever the zoom is not saturated at a scale bound, the
\* map-space point under the cursor after a wheel zoom equals the one before.
C13_ZoomAnchoring ==
  [][lastEvent'.type = "wheel" /\ ScaleFree(lastEvent'.arg) =>
       /\ Close(MapPointX', MapPointX)
       /\ Close(MapPointY', MapPointY)]_vars

\* C13 amended: whenever the zoom is not saturated at a scale bound, the
\* map-space point under the cursor is kept on every axis on which the pan
\* that keeps it lies inside the pan range of the new scale; on the other
\* axes the pan is the nearest end of the pan range.
C13_ZoomAnchoringInsidePanRange ==
  [][lastEvent'.type = "wheel" /\ ScaleFree(lastEvent'.arg) =>
       LET deltaY == lastEvent'.arg
       IN  /\ transform'.scale = AskedScale(deltaY)
           /\ IF PanFreeX(deltaY)
                THEN Close(MapPointX', MapPointX)
                ELSE transform'.x \in {0, PanMin(mapWidth, transform'.scale)}
           /\ IF PanFreeY(deltaY)
                THEN Close(MapPointY', MapPointY)
                ELSE transform'.y \in {0, PanMin(mapHeight, transform'.scale)}]_vars

\* a wheel zoom on a panned map with the cursor in the middle of the
\* viewport kept the map point under the cursor on both axes
C13_Witness ==
  /\ lastEvent.type = "wheel"
  /\ prevEvent.type = "wheel"
  /\ MouseX > 0
  /\ MIN_SCALE < transform.scale
  /\ transform.scale < MAX_SCALE
  /\ PanMin(mapWidth, transform.scale) < transform.x
  /\ transform.x < 0
  /\ PanMin(mapHeight, transform.scale) < transform.y
  /\ transform.y < 0
  /\ Close(FxMul(MapPointX, transform.scale), MouseX - transform.x)

\* a wheel event with this deltaY zooms in (factor 1.1), else out (factor 0.9)
ZoomsIn(deltaY) == scaleFactorOf(deltaY) > Fx(1)

\* C14: a zoom-in at scale = MAX_SCALE and a zoom-out at scale = MIN_SCALE
\* leave panX, panY and scale unchanged, for every cursor position.
C14_ZoomNoOpAtLimits ==
  [][/\ lastEvent'.type = "wheel"
     /\ \/ transform.scale = MAX_SCALE /\ ZoomsIn(lastEvent'.arg)
        \/ transform.scale = MIN_SCALE /\ ~ZoomsIn(lastEvent'.arg)
     => transform' = transform]_vars

\* the first event after the pointer entered in the middle of the viewport
\* is a wheel-down, handled at scale = MIN_SCALE
C14_Witness ==
  /\ lastEvent.type = "wheel"
  /\ ~ZoomsIn(lastEvent.arg)
  /\ prevEvent.type = "mouseenter"
  /\ gestures = 2
  /\ MouseX > 0
  /\ transform = [x |-> 0, y |-> 0, scale |-> MIN_SCALE]

(***************************************************************************)
(* Properties of the refresh (specification SpecLinks).                    *)
(***************************************************************************)
\* the five collections before the first refresh
InitialCollections == <<<<>>, <<>>, <<>>, <<>>, <<>>>>

\* C16: a refresh replaces the five collections together: the collections
\* every frame is computed from are those of one snapshot (or the initial
\* ones), never some of the new snapshot and others of the state before.
C16_AtomicRefresh ==
  \/ collections = InitialCollections
  \/ \E data \in Snapshots : collections = StoredOf(data)

\* the state a user event or a refresh can leave behind, the fetches apart
ComponentState == <<viewVars, collections, toggles, hoveredNode>>

\* this step is the failure of a fetch: a fetch ends and none starts
FetchFails ==
  /\ lastFetch' = "rejected"
  /\ inFlight' # inFlight
  /\ inFlight' \subseteq inFlight

\* C17: a failed fetch leaves the five collections and the transform,
\* hover, drag and toggle state as they were and enters no error state: the
\* fetch is over, no setter is left running, and the timer starts the next
\* fetch whenever it fires, as after a success.
C17_RefreshFailure ==
  /\ [][FetchFails =>
          /\ ComponentState' = ComponentState
          /\ Cardinality(inFlight') = Cardinality(inFlight) - 1
          /\ settersDone' = 0
          /\ pending' = pending
          /\ started' = started]_vars
  /\ [](settersDone = 0 /\ started < MaxFetches => ENABLED timerTick)
  /\ [][started' # started =>
          /\ started' = started + 1
          /\ inFlight' = inFlight \cup {started'}
          /\ ComponentState' = ComponentState]_vars

\* the second fetch failed after the first had stored a snapshot with nodes
\* and links, while a node was hovered and a toggle was on
C17_Witness ==
  /\ lastFetch = "rejected"
  /\ started = 2
  /\ inFlight = {}
  /\ settersDone = 0
  /\ satellites = AllSatellites
  /\ satelliteLinks # <<>>
  /\ groundUplinks # <<>>
  /\ hoveredNode = <<R1_A>>
  /\ showGroundLinks

\* the collection a payload key gives: empty if the key is missing, else its
\* value
KeyGives(key, collection) ==
  IF key = Absent THEN collection = <<>> ELSE collection = key[1]

\* this step is the last setter of a refresh
RefreshCompletes == settersDone = 4 /\ settersDone' = 0

\* C18: when a refresh has stored a parsed payload, every collection whose
\* key the payload lacks is empty and every other collection is the value of
\* its key.
C18_PartialPayload ==
  [][RefreshCompletes =>
       /\ KeyGives(pending[1].satellites, satellites')
       /\ KeyGives(pending[1].ground_stations, groundStations')
       /\ KeyGives(pending[1].vessels, vessels')
       /\ KeyGives(pending[1].satellite_links, satelliteLinks')
       /\ KeyGives(pending[1].ground_uplinks, groundUplinks')]_vars

\* the payload without ground_stations and ground_uplinks has been stored
\* over a snapshot that had the ground station G_X, which is still hovered
C18_Witness ==
  /\ settersDone = 0
  /\ lastFetch = "resolved"
  /\ hoveredNode = <<G_X>>
  /\ satellites = SubSeq(AllSatellites, 1, 2)
  /\ groundStations = <<>>
  /\ vessels = AllVessels
  /\ satelliteLinks = <<Link(R1_B, R1_A, TRUE)>>
  /\ groundUplinks = <<>>

(***************************************************************************)
(* Properties of refreshes among user events (specification SpecRefresh).  *)
(***************************************************************************)
\* the transform and the interaction state
Interaction == <<transform, isDragging, dragStart, hoveredNode, toggles>>

\* this step belongs to a refresh: a fetch starts or ends, or a setter runs
RefreshStep == fetchVars' # fetchVars \/ collections' # collections

\* C19: no step of a refresh, successful or failed, changes panX, panY,
\* scale, hoveredNode, dragging, dragAnchor or a toggle, also when the hovered
\* node is not in the new snapshot; the transform and the drag state change
\* only when a pointer or wheel event of the viewport is handled, the hover
\* only when the pointer enters or leaves a node, a toggle only by its
\* checkbox.
C19_StatePersists ==
  /\ [][RefreshStep => Interaction' = Interaction]_vars
  /\ [][<<transform, isDragging, dragStart>>' # <<transform, isDragging, dragStart>>
          => /\ lastEvent'.type \in {"mousedown", "mousemove", "mouseup",
                                     "mouseleave", "wheel"}
             /\ ~RefreshStep
             /\ UNCHANGED <<hoveredNode, toggles>>]_vars
  /\ [][hoveredNode' # hoveredNode =>
          overNode' # overNode /\ hoveredNode' = overNode']_vars
  /\ [][toggles' # toggles => ~RefreshStep /\ UNCHANGED <<viewVars, hoveredNode>>]_vars

\* a refresh has stored a snapshot without the hovered node R1_A while the
\* map was zoomed and dragged and the uplink toggle was on
C19_Witness ==
  /\ settersDone = 0
  /\ lastFetch = "resolved"
  /\ hoveredNode = <<R1_A>>
  /\ ~Resolvable(R1_A)
  /\ satellites # <<>>
  /\ pointerInside
  /\ isDragging
  /\ transform.scale > MIN_SCALE
  /\ transform.x < 0
  /\ showGroundLinks

(***************************************************************************)
(* Properties of the toggle-driven frame (specification SpecGraph).        *)
(***************************************************************************)
\* the frame holds a <line> that entry idx of the orbital-link list drew
SatLinkDrawn(idx) ==
  \E f \in Range(renderLinks) : f.key[1] = "sat" /\ f.key[2] = idx - 1

\* the frame holds a <line> that uplink uIdx of group sIdx drew
UplinkDrawn(sIdx, uIdx) ==
  \E f \in Range(renderLinks) :
    f.key[1] = "gs" /\ f.key[2] = sIdx - 1 /\ f.key[3] = uIdx - 1

\* C20: with no node hovered, an up orbital link whose endpoints resolve is
\* drawn iff it is in-plane and the in-plane toggle is on, or cross-plane and
\* the cross-plane toggle is on; an uplink whose endpoints resolve is drawn
\* iff the ground-uplink toggle is on; every drawn link has opacity 0.5; with
\* the three toggles off nothing is drawn.
C20_ToggleDisplayPolicy ==
  hoveredNode = <<>> =>
    /\ \A idx \in 1..Len(satelliteLinks) :
         LET l == satelliteLinks[idx]
             class == ClassColor(l.node1_name, l.node2_name)
         IN  l.up /\ Resolvable(l.node1_name) /\ Resolvable(l.node2_name) =>
               (SatLinkDrawn(idx) <=>
                  \/ class = Green /\ showInPlaneLinks
                  \/ class = Blue /\ showCrossPlaneLinks)
    /\ \A sIdx \in 1..Len(groundUplinks) :
         \A uIdx \in 1..Len(groundUplinks[sIdx].uplinks) :
           /\ Resolvable(groundUplinks[sIdx].ground_node)
           /\ Resolvable(groundUplinks[sIdx].uplinks[uIdx].sat_node)
           => (UplinkDrawn(sIdx, uIdx) <=> showGroundLinks)
    /\ \A f \in Range(renderLinks) : f.strokeOpacity = Lit(1, 2)
    /\ ~showInPlaneLinks /\ ~showCrossPlaneLinks /\ ~showGroundLinks
         => renderLinks = <<>>

(***************************************************************************)
(* Properties of wheel, hover and click events (specification SpecRefresh).*)
(***************************************************************************)
\* this step handles a wheel event of the viewport
WheelStep ==
  /\ lastEvent'.type = "wheel"
  /\ \/ transform' # transform
     \/ <<gestures, lastEvent, prevEvent>>' # <<gestures, lastEvent, prevEvent>>

\* this step handles the pointer entering the icon of a node
NodeEnterStep == overNode = <<>> /\ overNode' # <<>>

\* this step handles the pointer leaving the icon of a node
NodeLeaveStep == overNode # <<>> /\ overNode' = <<>> /\ ~RefreshStep

\* C21: a wheel event changes neither dragging nor dragAnchor nor
\* hoveredNode; the pointer entering a node sets hoveredNode to that node and
\* leaving it sets hoveredNode to none, Idle or Dragging, and neither changes
\* dragging, dragAnchor, panX, panY or scale.
C21_WheelHoverIndependent ==
  /\ [][WheelStep => UNCHANGED <<isDragging, dragStart, hoveredNode>>]_vars
  /\ [][NodeEnterStep =>
          /\ hoveredNode' = overNode'
          /\ UNCHANGED <<isDragging, dragStart, transform>>]_vars
  /\ [][NodeLeaveStep =>
          /\ hoveredNode' = <<>>
          /\ UNCHANGED <<isDragging, dragStart, transform>>]_vars

\* in the middle of a drag the map has been zoomed by the wheel and a node
\* is hovered
C21_Witness ==
  /\ isDragging
  /\ lastEvent.type = "wheel"
  /\ prevEvent = [type |-> "mousedown", arg |-> 0]
  /\ transform.scale > MIN_SCALE
  /\ hoveredNode = <<R2_B>>
  /\ overNode = <<R2_B>>

\* names to click: those of the snapshots and some of other shapes
ClickNames ==
  Names \cup {<<"R">>, <<"R", "_", "G", "_">>, <<"G", "X">>, <<"G">>,
              <<"g", "_", "X">>, <<"r", "1", "_", "A">>, <<"S", "3", "_", "D">>,
              <<"V", "_", "R">>, <<"X", "G", "_">>, <<>>}

\* the view of a name: router for a name beginning with R, station for a
\* name of the ground category, vessel for every other name
ViewOf(name) ==
  IF name # <<>> /\ name[1] = "R" THEN "router"
  ELSE IF Len(name) >= 2 /\ name[1] = "G" /\ name[2] = "_" THEN "station"
  ELSE "vessel"

\* C22: a click on a node issues exactly one navigation request, for the
\* path /view/router/{name}, /view/station/{name} or /view/vessel/{name} of
\* its name, in a new browsing context, and changes no transform, hover,
\* drag or toggle state (nor a collection).
C22_ClickNavigation ==
  /\ [](\A name \in ClickNames :
          handleNodeClick(name) =
            [url |-> <<"/view/", ViewOf(name), "/">> \o name, target |-> "_blank"])
  /\ [][opened' # opened =>
          /\ overNode # <<>>
          /\ opened' = Append(opened, [url |-> <<"/view/", ViewOf(overNode[1]), "/">>
                                               \o overNode[1],
                                       target |-> "_blank"])
          /\ UNCHANGED <<viewVars, collections, toggles, hoveredNode, fetchVars>>]_vars

\* the ground station G_X has been clicked while it was hovered and a toggle
\* was on: one request, for its station view
C22_Witness ==
  /\ opened = <<[url |-> <<"/view/", "station", "/", "G", "_", "X">>,
                 target |-> "_blank"]>>
  /\ hoveredNode = <<G_X>>
  /\ showCrossPlaneLinks
  /\ groundStations # <<>>

(***************************************************************************)
(* Properties of the projection (specification SpecProject).               *)
(***************************************************************************)
\* v / 2 on Numbers, as the projection computes a half: 0.5 * v
Half(v) == FxMul(Lit(1, 2), v)

\* the node drawn at a position, and its projection
NodeAt(i) == satellites[i]

ProjectedAt(i) == getNodeCoordinates(NodeAt(i))

\* the projection of a node is the formula of the claim up to the rounding
\* of its quotient and its product: 360 * x = (lon + 180) * mapWidth and
\* 180 * y = (90 - lat) * mapHeight
ProjectionFormula(i) ==
  /\ 2 * Abs(360 * ProjectedAt(i)[1] - mapWidth * (NodeAt(i).lon + Fx(180)))
       <= 360 * (mapWidth + 1)
  /\ 2 * Abs(180 * ProjectedAt(i)[2] - mapHeight * (Fx(90) - NodeAt(i).lat))
       <= 180 * (mapHeight + 1)

\* the three positions whose projection the claim states
FixedPoints(i) ==
  /\ NodeAt(i).lat = Fx(0) /\ NodeAt(i).lon = Fx(-180) =>
       ProjectedAt(i) = <<0, Half(Fx(mapHeight))>>
  /\ NodeAt(i).lat = Fx(0) /\ NodeAt(i).lon = Fx(180) =>
       ProjectedAt(i) = <<Fx(mapWidth), Half(Fx(mapHeight))>>
  /\ NodeAt(i).lat = Fx(90) /\ NodeAt(i).lon = Fx(0) =>
       ProjectedAt(i) = <<Half(Fx(mapWidth)), 0>>

\* x depends on lon alone and y on lat alone
AxesIndependent ==
  /\ NodeAt(1).lon = NodeAt(2).lon => ProjectedAt(1)[1] = ProjectedAt(2)[1]
  /\ NodeAt(1).lat = NodeAt(2).lat => ProjectedAt(1)[2] = ProjectedAt(2)[2]

Apart(low, high, range) == high - low >= range

FetchStarts == started' # started

\* the timer may fire: no callback is running and the model's budget of
\* fetches is not used up
TimerDue == settersDone = 0 /\ started < MaxFetches

\* C24: the mount has started the first fetch; while the component is
\* mounted the timer is live and each of its ticks starts one more fetch;
\* once the component is unmounted it stays so, the timer can no longer fire
\* and no fetch is ever started.
C24_TeardownReleasesTimer ==
  /\ mounted = TRUE /\ started = 1 /\ inFlight = {1}
  /\ [](mounted = TRUE /\ TimerDue => ENABLED timerTick)
  /\ [](mounted = FALSE => ~ENABLED timerTick)
  /\ [][FetchStarts =>
          /\ mounted = TRUE
          /\ started' = started + 1
          /\ inFlight' = inFlight \cup {started'}]_vars
  /\ [][mounted = FALSE => mounted' = FALSE /\ ~FetchStarts]_vars

\* the component was unmounted after a tick, while the fetch of that tick
\* was still in flight, and the fetch of the mount has resolved since
C24_Witness ==
  /\ ~mounted
  /\ interval = "cleared"
  /\ started = 2
  /\ inFlight = {2}
  /\ lastFetch = "resolved"


(***************************************************************************)
(* Overlapping refreshes (specification SpecLinks).                        *)
(***************************************************************************)
\* C25: once the responses that arrived have been handled, the collections
\* are those of the successful fetch that was started last, whatever the
\* order in which the responses arrived.
C25_SnapshotsNeverGoBackwards ==
  settersDone = 0 /\ newestStored # <<>> =>
    collections = newestStored[1].stored


(***************************************************************************)
(* Hover on a node that a refresh removed (specification SpecStale).       *)
(***************************************************************************)
\* hoveredNode names a node that is in none of the three collections
StaleHover == hoveredNode # <<>> /\ hoveredNode[1] \notin RenderedNames

\* this step handles a pointerEnter or a pointerLeave on some node
PointerOnNode == NodeEnterStep \/ NodeLeaveStep

\* C26 as stated: a refresh leaves hoveredNode set also when it removes the
\* hovered node, and from then on every frame has no link segment, whatever
\* the toggles, until the pointer enters or leaves some node.
C26_StaleHover ==
  /\ [][RefreshStep => hoveredNode' = hoveredNode]_vars
  /\ [](StaleHover => renderLinks = <<>>)
  /\ [][StaleHover /\ ~PointerOnNode => renderLinks' = <<>>]_vars

\* C26 amended: a refresh leaves hoveredNode set also when it removes the
\* hovered node; while the hovered node is in no collection every frame has
\* no link segment, whatever the toggles; and that lasts until the pointer
\* enters or leaves some node or a refresh stores a node of that name again.
C26_StaleHoverUntilEventOrRefresh ==
  /\ [][RefreshStep => hoveredNode' = hoveredNode]_vars
  /\ [](StaleHover => renderLinks = <<>>)
  /\ [][StaleHover /\ ~PointerOnNode /\ ~RefreshStep =>
          StaleHover' /\ renderLinks' = <<>>]_vars

\* a refresh has removed the hovered G_X while links of the stored snapshot
\* remain, and with the three toggles on nothing is drawn
C26_Witness ==
  /\ hoveredNode = <<G_X>>
  /\ StaleHover
  /\ lastFetch = "resolved"
  /\ settersDone = 0
  /\ showInPlaneLinks /\ showCrossPlaneLinks /\ showGroundLinks
  /\ satelliteLinks # <<>>
  /\ renderLinksFor(<<>>, TRUE, TRUE, TRUE) # <<>>
  /\ renderLinks = <<>>


(***************************************************************************)
(* Symmetry of the connectivity (specification SpecGraph).                 *)
(***************************************************************************)
\* the names getConnectedNodes returns for every name of the universe
ConnectedOf == [name \in Names |-> Range(getConnectedNodes(name))]

\* a and b are joined by an uplink group and by no orbital link
JoinedByUplinkOnly(a, b) ==
  /\ \E i \in 1..Len(groundUplinks) :
       /\ groundUplinks[i].ground_node = a
       /\ \E j \in 1..Len(groundUplinks[i].uplinks) :
            groundUplinks[i].uplinks[j].sat_node = b
  /\ \A i \in 1..Len(satelliteLinks) :
       {satelliteLinks[i].node1_name, satelliteLinks[i].node2_name} # {a, b}

\* name is the groundNode of one group and a satNode of another
GroundAndSatNode(name) ==
  \E i, k \in 1..Len(groundUplinks) :
    /\ i # k
    /\ groundUplinks[i].ground_node = name
    /\ \E j \in 1..Len(groundUplinks[k].uplinks) :
         groundUplinks[k].uplinks[j].sat_node = name

\* C27: in every snapshot and for all names a and b, b is in
\* connectedNodes(a) exactly if a is in connectedNodes(b).
C27_ConnectivitySymmetric ==
  \A a, b \in Names : b \in ConnectedOf[a] <=> a \in ConnectedOf[b]

\* the hovered G_X is the groundNode of one group and a satNode of the group
\* of V_Y, no orbital link joins the two, and each is connected to the other
C27_Witness ==
  /\ hoveredNode = <<G_X>>
  /\ GroundAndSatNode(G_X)
  /\ JoinedByUplinkOnly(V_Y, G_X)
  /\ V_Y \in ConnectedOf[G_X]
  /\ G_X \in ConnectedOf[V_Y]


(***************************************************************************)
(* Direction of a drawn link (specification SpecProject).                  *)
(***************************************************************************)
\* the segments drawLink(a, b, ...) draws, as endpoints <<x1, y1, x2, y2>>
SegmentsOf(a, b) == Segments(drawLink(a, b, Green, Fx(1), <<"k">>))

\* a segment with its two endpoints exchanged
Reversed(seg) == <<seg[3], seg[4], seg[1], seg[2]>>

\* the link between a and b is wrapped: it is drawn as two segments
Wrapped(a, b) == Len(SegmentsOf(a, b)) = 2

\* C28: for all resolvable nodes a and b, drawLink(a, b) and drawLink(b, a)
\* draw the same number of segments, and the segments of one are those of the
\* other with the two endpoints of each exchanged, wrapped or straight.
C28_DrawLinkUndirected ==
  \A a, b \in RenderedNames :
    LET ab == SegmentsOf(a, b)
        ba == SegmentsOf(b, a)
    IN  /\ Len(ab) = Len(ba)
        /\ Len(ab) >= 1
        /\ {Reversed(ab[i]) : i \in 1..Len(ab)} = Range(ba)

\* the hovered R1_A at lon 90 and R1_B at lon -180 are joined by a wrapped
\* link, drawn in the frame as two segments that are not each other's reverse
C28_Witness ==
  /\ hoveredNode = <<R1_A>>
  /\ NodeAt(1).lon = Fx(90) /\ NodeAt(2).lon = Fx(-180)
  /\ NodeAt(1).lat # NodeAt(2).lat
  /\ Wrapped(R1_A, R1_B) /\ Wrapped(R1_B, R1_A)
  /\ Segments(renderLinks) = SegmentsOf(R1_A, R1_B)
  /\ SegmentsOf(R1_A, R1_B) # SegmentsOf(R1_B, R1_A)


(***************************************************************************)
(* Displacement of a drag (specification Spec).                            *)
(***************************************************************************)
\* a drag is in progress and no wheel event was handled since its pointerDown
DragUndisturbed == dragOrigin # <<>>

\* the pan and the pointer at the pointerDown of the drag in progress
Pan0 == dragOrigin[1]

DownAt == dragOrigin[1].pointer

WheelDowns(count) ==
  /\ lastEvent.type = "wheel"
  /\ ~ZoomsIn(lastEvent.arg)
  /\ wheelRun >= count

\* the last events were count or more consecutive wheel-ups
WheelUps(count) ==
  /\ lastEvent.type = "wheel"
  /\ ZoomsIn(lastEvent.arg)
  /\ wheelRun >= count

InitialTransform == [x |-> 0, y |-> 0, scale |-> Fx(1)]

\* C30: after 19 or more consecutive wheel-downs, from whatever transform,
\* the transform is the initial one, scale 1 and pan (0, 0), and a further
\* wheel-down leaves it unchanged; after MaxWheelRun or more consecutive
\* wheel-ups the scale is exactly MAX_SCALE = 6.75, and a further wheel-up
\* leaves the transform unchanged.
C30_ZoomSaturation ==
  /\ [](WheelDowns(19) => transform = InitialTransform)
  /\ [](WheelUps(MaxWheelRun) =>
          transform.scale = MAX_SCALE /\ MAX_SCALE = Lit(27, 4))
  /\ [][WheelDowns(19) /\ lastEvent'.type = "wheel" /\ ~ZoomsIn(lastEvent'.arg)
          => transform' = transform]_vars
  /\ [][WheelUps(MaxWheelRun) /\ lastEvent'.type = "wheel"
          /\ ZoomsIn(lastEvent'.arg) => transform' = transform]_vars

\* 18 consecutive wheel-downs, begun right after a run of wheel-ups, have
\* acted and the scale is still above 1: the run that needs its 19th event
C30_Witness ==
  /\ WheelDowns(18)
  /\ wheelRun = 18
  /\ gestures = 3
  /\ transform.scale > Fx(1)
=============================================================================
